---------------------------- MODULE Spec2Model ----------------------------
(***************************************************************************)
(* validate_email: RFC 2822 address validation with MX resolution, a       *)
(* known-domain directory and an SMTP probe (src/validate_email.py).       *)
(*                                                                         *)
(* Strings are sequences of tokens.  A token is "@", ".", the double quote *)
(* or an atom, a non-empty run of ATEXT characters ("corp", "0-mail").     *)
(* Python values that may be None, False or a dict are tagged records.     *)
(***************************************************************************)
EXTENDS Integers, Sequences, FiniteSets, TLC

(***************************************************************************)
(* Bounds of the model.                                                    *)
(***************************************************************************)
\* validate_email calls in one behaviour
MaxCalls == 2
\* exchangers in one DNS answer
MaxMX == 2

(***************************************************************************)
(* Tokens and strings.                                                     *)
(***************************************************************************)
AT == "@"
DOT == "."
DQUOTE == "\""

IsAtom(t) == t \notin {AT, DOT, DQUOTE}

\* s[a..b], empty when a > b
Slice(s, a, b) == IF a > b THEN <<>> ELSE SubSeq(s, a, b)

\* positions of token t in s
Positions(s, t) == {k \in 1..Len(s) : s[k] = t}

Min(S) == CHOOSE x \in S : \A y \in S : x <= y
Max(S) == CHOOSE x \in S : \A y \in S : x >= y

\* str.find(t): 0-based index of the first occurrence, -1 when there is none
Find(s, t) == IF Positions(s, t) = {} THEN -1 ELSE Min(Positions(s, t)) - 1

\* s[k:] for a 0-based k >= 0
From(s, k) == Slice(s, k + 1, Len(s))

\* str.rsplit(t, 1): a list of one or two strings, cut at the last t
RSplit1(s, t) ==
    IF Positions(s, t) = {} THEN <<s>>
    ELSE LET k == Max(Positions(s, t))
         IN <<Slice(s, 1, k - 1), Slice(s, k + 1, Len(s))>>

\* str.split(t): the list of pieces between the occurrences of t
RECURSIVE Split(_, _)
Split(s, t) ==
    IF Positions(s, t) = {} THEN <<s>>
    ELSE LET k == Min(Positions(s, t))
         IN <<Slice(s, 1, k - 1)>> \o Split(Slice(s, k + 1, Len(s)), t)

\* t.join(list)
RECURSIVE Join(_, _)
Join(l, t) ==
    IF Len(l) = 0 THEN <<>>
    ELSE IF Len(l) = 1 THEN l[1]
    ELSE l[1] \o <<t>> \o Join(Tail(l), t)

\* list[-2:]
Last2(l) == IF Len(l) <= 2 THEN l ELSE SubSeq(l, Len(l) - 1, Len(l))

(***************************************************************************)
(* Python values.                                                          *)
(***************************************************************************)
None == [t |-> "None"]
PyFalse == [t |-> "bool", v |-> FALSE]
PyTrue == [t |-> "bool", v |-> TRUE]
Str(s) == [t |-> "str", v |-> s]
List(l) == [t |-> "list", v |-> l]

\* truth value of a Python object: None, False, '' and {} are falsy
Truthy(x) ==
    CASE x.t = "None" -> FALSE
      [] x.t = "bool" -> x.v
      [] x.t = "str" -> x.v # <<>>
      [] x.t = "dict" -> x.v # <<>>
      [] OTHER -> TRUE

(***************************************************************************)
(* The addr-spec pattern, restricted to the token alphabet: no white       *)
(* space, comment or domain-literal token exists, so CFWS and              *)
(* DOMAIN_LITERAL match nothing.                                           *)
(***************************************************************************)
\* DOT_ATOM_TEXT: ATEXT+ ( "." ATEXT+ )*
DOT_ATOM(s) ==
    /\ Len(s) % 2 = 1
    /\ \A k \in 1..Len(s) : IF k % 2 = 1 THEN IsAtom(s[k]) ELSE s[k] = DOT

\* QUOTED_STRING: '"' QCONTENT* '"'; QTEXT holds every token but the quote
QUOTED_STRING(s) ==
    /\ Len(s) >= 2
    /\ s[1] = DQUOTE
    /\ s[Len(s)] = DQUOTE
    /\ \A k \in 2..(Len(s) - 1) : s[k] # DQUOTE

LOCAL_PART(s) == DOT_ATOM(s) \/ QUOTED_STRING(s)

DOMAIN_RE(s) == DOT_ATOM(s)

\* re.match(VALID_ADDRESS_REGEXP, email) is not None
VALID_ADDRESS_REGEXP(email) ==
    \E k \in Positions(email, AT) :
        /\ LOCAL_PART(Slice(email, 1, k - 1))
        /\ DOMAIN_RE(Slice(email, k + 1, Len(email)))

(***************************************************************************)
(* Data: the disposable domains, the directory, the inputs.                *)
(***************************************************************************)
\* entries of the _disposable list
_disposable == {<<"0-mail", DOT, "com">>, <<"0815", DOT, "ru">>}

\* x in list_of_strings: a list never equals a string
PyIn(x, strings) == x.t = "str" /\ x.v \in strings

GmailUser == <<"VALID_GMAIL_ACCOUNT", AT, "gmail", DOT, "com">>
LiveUser == <<"VALID_LIVE_ACCOUNT", AT, "live", DOT, "com">>
\* creds row 0, the default creds_id of a connection: a username and no password
NoAuthUser == <<"No Auth", "Required">>

\* rows of connectionView: (domain, server, username, password, ssl, port).
\* The last row is a connection entered with the defaults of its table.
connectionView ==
    << <<Str(<<"gmail", DOT, "com">>), Str(<<"smtp", DOT, "gmail", DOT, "com">>),
         Str(GmailUser), Str(<<"VALID_PASS">>), 1, 465>>,
       <<Str(<<"live", DOT, "com">>), Str(<<"smtp", DOT, "live", DOT, "com">>),
         Str(LiveUser), Str(<<"VALID_PASS">>), 1, 587>>,
       <<Str(<<"relay", DOT, "net">>), Str(<<"smtp", DOT, "relay", DOT, "net">>),
         Str(NoAuthUser), None, 1, 465>>,
       \* a second connection of a domain: PRIMARY KEY (domain_id, server_id)
       <<Str(<<"gmail", DOT, "com">>), Str(<<"smtp", DOT, "live", DOT, "com">>),
         Str(LiveUser), Str(<<"VALID_PASS">>), 1, 587>> >>

\* the decrypt capability: None, or a function that strips a leading token
Fn(name) == [t |-> "fn", v |-> name]

ApplyDecrypt(decrypt, x) ==
    IF decrypt.v = "strip" THEN Str(Tail(x.v)) ELSE x

(***************************************************************************)
(* get_known_domain: None, or a dict of one record keyed by the server.    *)
(* A dict is a sequence of entries in insertion order.                     *)
(***************************************************************************)
Entry(server, domain, username, password, is_ssl, port) ==
    [server |-> server, domain |-> domain, username |-> username,
     password |-> password, is_ssl |-> is_ssl, port |-> port]

Dict(entries) == [t |-> "dict", v |-> entries]

\* rows of the view whose domain is hostname, in the order of the view
SelectRows(hostname) ==
    SelectSeq(connectionView, LAMBDA row : row[1].v = hostname)

\* get_known_domain with fetchall: a record for every row of the domain
get_known_domain_fetchall(hostname, sql_conn, decrypt) ==
    IF Truthy(sql_conn) /\ SelectRows(hostname) # <<>>
    THEN LET rows == SelectRows(hostname)
             field(x) == IF x.t # "None" /\ decrypt.t # "None"
                         THEN ApplyDecrypt(decrypt, x) ELSE x
         IN Dict([k \in DOMAIN rows |->
                     Entry(rows[k][2].v, rows[k][1].v, field(rows[k][3]), field(rows[k][4]),
                           rows[k][5], rows[k][6])])
    ELSE None

\* get_known_domain with decrypt applied to the password only
get_known_domain_plain_username(hostname, sql_conn, decrypt) ==
    IF Truthy(sql_conn) /\ SelectRows(hostname) # <<>>
    THEN LET data == SelectRows(hostname)[1]
             password == IF data[4].t # "None" /\ decrypt.t # "None"
                         THEN ApplyDecrypt(decrypt, data[4]) ELSE data[4]
         IN Dict(<<Entry(data[2].v, data[1].v, data[3], password, data[5], data[6])>>)
    ELSE None

\* lines 97-118
get_known_domain(hostname, sql_conn, decrypt) ==
    IF Truthy(sql_conn) /\ SelectRows(hostname) # <<>>
    THEN LET data == SelectRows(hostname)[1]
             username == IF data[3].t # "None" /\ decrypt.t # "None"
                         THEN ApplyDecrypt(decrypt, data[3]) ELSE data[3]
             password == IF data[4].t # "None" /\ decrypt.t # "None"
                         THEN ApplyDecrypt(decrypt, data[4]) ELSE data[4]
         IN Dict(<<Entry(data[2].v, data[1].v, username, password, data[5], data[6])>>)
    ELSE None

(***************************************************************************)
(* check_command: False for a fail code, True for an ok code, else None.   *)
(***************************************************************************)
ok_codes == {250}
fail_codes == {550}

\* check_command with True for every code that is no fail code
check_command_unknown_ok(status) ==
    IF status \in fail_codes THEN PyFalse ELSE PyTrue

check_command(status) ==
    IF status \in fail_codes THEN PyFalse
    ELSE IF status \in ok_codes THEN PyTrue
    ELSE None

(***************************************************************************)
(* Inputs of validate_email and replies of the network.                    *)
(***************************************************************************)
PlainEmail == <<"u", AT, "corp", DOT, "com">>
KnownEmail == <<"u", AT, "gmail", DOT, "com">>
QuotedEmail == <<DQUOTE, "u", AT, "x", DQUOTE, AT, "corp", DOT, "com">>
DisposableEmail == <<"u", AT, "0-mail", DOT, "com">>
BadEmail == <<"not-an-address">>

Emails == {PlainEmail, KnownEmail, QuotedEmail, DisposableEmail, BadEmail}

Sender == Str(<<"me", AT, "corp", DOT, "com">>)
Db == Str(<<"db">>)

Request(email, check_mx, verify, allow_disposable, sending_email, sql_conn, decrypt) ==
    [email |-> email, check_mx |-> check_mx, verify |-> verify,
     allow_disposable |-> allow_disposable, sending_email |-> sending_email,
     sql_conn |-> sql_conn, decrypt |-> decrypt]

\* (allow_disposable, sending_email, sql_conn, decrypt) of the calls that resolve
Profiles ==
    { <<TRUE, None, None, None>>,
      <<FALSE, None, Db, None>>,
      <<TRUE, Sender, Db, Fn("strip")>> }

\* the calls: every combination of arguments for a call that ends before it
\* resolves the domain, one of the profiles for a call that resolves it
Requests ==
    { Request(e, c, v, a, s, d[1], d[2]) :
        e \in Emails, c \in BOOLEAN, v \in BOOLEAN, a \in BOOLEAN,
        s \in {None, Sender},
        d \in {<<None, None>>, <<Db, None>>, <<Db, Fn("strip")>>} }

\* exchangers a DNS answer may name
Mx1 == <<"mx1", DOT, "corp", DOT, "com">>
Mx2 == <<"mx2", DOT, "corp", DOT, "com">>
MxKnown == <<"mx", DOT, "gmail", DOT, "com">>
MxRelay == <<"mx", DOT, "relay", DOT, "net">>
MXServers == {Mx1, Mx2, MxKnown, MxRelay}

\* sequences without repetition over S, of length 1..n
DistinctSeqs(S, n) ==
    {q \in UNION {[1..m -> S] : m \in 1..n} :
        \A a, b \in DOMAIN q : a # b => q[a] # q[b]}

\* the answers to an MX query: Mx1 and Mx2 differ in name only, so Mx2 is
\* named only after Mx1
Answers ==
    {q \in DistinctSeqs(MXServers, MaxMX) :
        \A b \in DOMAIN q : q[b] = Mx2 => \E a \in 1..(b - 1) : q[a] = Mx1}

\* resolver.query(hostname, 'MX'): the exchangers of an answer, or the exception.
\* Only a well-formed host name has an answer.
DnsReplies(h) ==
    {[k |-> "answer", v |-> q] : q \in IF DOT_ATOM(h) THEN Answers ELSE {}}
    \cup {[k |-> e, v |-> <<>>] : e \in {"Timeout", "NXDOMAIN", "NoAnswer", "NoNameservers"}}

\* reply codes of an SMTP command
Codes == {250, 550, 451}

ConnectResults == {"ok", "SMTPConnectError", "SMTPServerDisconnected", "socket.error"}
LoginResults == {"ok", "SMTPServerDisconnected", "SMTPException"}
\* helo, mail, rcpt and quit end in a reply or in SMTPServerDisconnected; with
\* faults, they may also raise another SMTPException (a reply line too long)
CommandErrors(faults) ==
    {"SMTPServerDisconnected"} \cup (IF faults THEN {"SMTPException"} ELSE {})
QuitResults(faults) ==
    {"ok", "SMTPServerDisconnected"} \cup (IF faults THEN {"SMTPException"} ELSE {})

(***************************************************************************)
(* State.                                                                  *)
(***************************************************************************)
VARIABLES
    MX_DNS_CACHE,    \* hostname -> None or a dict of exchangers
    MX_CHECK_CACHE,  \* exchanger -> True
    libFaults,       \* the transport: whether a command may raise an SMTPException
    pc,              \* position of the running validate_email call
    args,            \* its parameters; check_mx and sending_email are assigned to
    hostname,        \* local
    mx_hosts,        \* local
    i,               \* local: position of mx in mx_hosts
    smtp,            \* local: "unbound", or the connection state of the SMTP object
    pending,         \* what the try block does once its finally clause is over
    outcome,         \* the value returned or the exception raised by the last call
    calls,           \* history: number of calls so far
    dnsLog,          \* history: the MX queries of this call and their replies
    lookups,         \* history: domains passed to get_known_domain in this call
    contacted,       \* history: connections attempted in this call
    last,            \* history: the last result of the transport for this mx
    released         \* history: the result of smtp.quit() on an open connection

caches == <<MX_DNS_CACHE, MX_CHECK_CACHE>>
locals == <<hostname, mx_hosts, i, smtp, pending>>
history == <<calls, dnsLog, lookups, contacted, last, released>>
vars == <<caches, libFaults, pc, args, locals, outcome, history>>

NoResult == [op |-> "none", code |-> 0, err |-> ""]
Result(op, code, err) == [op |-> op, code |-> code, err |-> err]

Return(x) == [k |-> "return", v |-> x]
Raise(e) == [k |-> "raise", v |-> [t |-> "exc", v |-> e]]
\* the loop goes on with the next mx: a continue, or a handled exception
Continue == [k |-> "continue", v |-> None]
NoOutcome == [k |-> "none", v |-> None]

Start ==
    /\ MX_DNS_CACHE = [h \in {} |-> None]
    /\ MX_CHECK_CACHE = [m \in {} |-> PyTrue]
    /\ pc = "idle"
    /\ args = Request(<<>>, FALSE, FALSE, TRUE, None, None, None)
    /\ hostname = <<>>
    /\ mx_hosts = None
    /\ i = 0
    /\ smtp = "unbound"
    /\ pending = Continue
    /\ outcome = NoOutcome
    /\ calls = 0
    /\ dnsLog = <<>>
    /\ lookups = <<>>
    /\ contacted = <<>>
    /\ last = NoResult
    /\ released = ""

Init == Start /\ libFaults = FALSE
InitFaults == Start /\ libFaults = TRUE

(***************************************************************************)
(* Leaving validate_email.                                                 *)
(***************************************************************************)
\* the call ends with o
Finish(o) == pc' = "done" /\ outcome' = o

\* Outer without the except clause of lines 273-275
Outer_without_socket_error(exc) ==
    IF exc.v.v = "AssertionError" THEN Finish(Return(PyFalse))
    ELSE Finish(exc)

\* Outer with the catch-all clause of lines 276-278 in force
Outer_catch_all(exc) ==
    IF exc.v.v = "socket.error" THEN Finish(Return(None))
    ELSE Finish(Return(PyFalse))

\* the except clauses of validate_email, lines 271-275, for an exception that
\* reaches them.  smtplib.SMTPException is an OSError, and so a socket.error,
\* in some builds of the library and not in others.
Outer(exc) ==
    IF exc.v.v = "AssertionError" THEN Finish(Return(PyFalse))
    ELSE IF exc.v.v = "socket.error" THEN Finish(Return(None))
    ELSE IF exc.v.v = "SMTPException" THEN Finish(Return(None)) \/ Finish(exc)
    ELSE Finish(exc)

\* what follows mx_hosts = get_mx_ip(...): lines 210-214
Dispatch(m) ==
    /\ mx_hosts' = m
    /\ IF m.t = "None" THEN Finish(Return(PyFalse)) /\ i' = 0
       ELSE IF m.t = "bool" /\ ~m.v THEN Finish(Return(None)) /\ i' = 0
       ELSE pc' = "loop" /\ i' = 1 /\ outcome' = NoOutcome

(***************************************************************************)
(* is_disposable.  The result is a Return or a Raise.                      *)
(***************************************************************************)
is_disposable(email) ==
    LET email_domain == List(RSplit1(email, AT))
    IN IF PyIn(email_domain, _disposable)
       THEN Raise("NameError")  \* logger.warn(..., domain): domain is unbound
       ELSE Return(PyFalse)

(***************************************************************************)
(* get_mx_ip, in two halves: up to the MX query, and from its reply on.    *)
(***************************************************************************)
\* dict[key] = value
DictSet(d, e) ==
    IF \E k \in 1..Len(d) : d[k].server = e.server
    THEN [k \in 1..Len(d) |-> IF d[k].server = e.server THEN e ELSE d[k]]
    ELSE Append(d, e)

\* '.'.join(server.split('.')[-2:])
topleveldomain(server) == Join(Last2(Split(server, DOT)), DOT)

\* default_entry with the column defaults of the connections table
default_entry_tls(server, h) == Entry(server, h, None, None, 1, 465)

\* line 147: the record of an exchanger that DNS named
default_entry(server, h) == Entry(server, h, None, None, 0, 25)

\* cache_item after the loop over an answer none of whose exchangers is known
RECURSIVE cache_item(_, _, _)
cache_item(servers, h, acc) ==
    IF servers = <<>> THEN acc
    ELSE cache_item(Tail(servers), h, DictSet(acc, default_entry(Head(servers), h)))

\* get_mx_ip_before without the lookup of the hostname in the directory
get_mx_ip_before_cache_only(h, sql_conn, decrypt) ==
    IF h \notin DOMAIN MX_DNS_CACHE
    THEN [k |-> "query", v |-> None]
    ELSE Return(MX_DNS_CACHE[h])

\* lines 121-131 and 157-158: raise, return, or go on to query the resolver
get_mx_ip_before(h, sql_conn, decrypt) ==
    LET known_domain == get_known_domain(h, sql_conn, decrypt)
    IN IF Truthy(known_domain)
       THEN Raise("NameError")  \* line 125 reads known_doamin, which is unbound
       ELSE IF h \notin DOMAIN MX_DNS_CACHE
       THEN [k |-> "query", v |-> None]
       ELSE Return(MX_DNS_CACHE[h])

\* on_answer with the default records built before the hit returned with it
on_answer_keeps_defaults(h, servers, sql_conn, decrypt) ==
    LET tld(k) == topleveldomain(servers[k])
        hits == {k \in 1..Len(servers) :
                    Truthy(get_known_domain(tld(k), sql_conn, decrypt))}
        stored == (h :> Dict(cache_item(servers, h, <<>>))) @@ MX_DNS_CACHE
    IN IF hits # {}
       THEN [result |-> Return(Dict(cache_item(SubSeq(servers, 1, Min(hits) - 1), h, <<>>)
                                \o get_known_domain(tld(Min(hits)), sql_conn, decrypt).v)),
             cache |-> MX_DNS_CACHE,
             lookups |-> [k \in 1..Min(hits) |-> tld(k)]]
       ELSE [result |-> Return(stored[h]),
             cache |-> stored,
             lookups |-> [k \in 1..Len(servers) |-> tld(k)]]

\* lines 135-148 and 157-158: the loop over the exchangers of an answer
on_answer(h, servers, sql_conn, decrypt) ==
    LET tld(k) == topleveldomain(servers[k])
        hits == {k \in 1..Len(servers) :
                    Truthy(get_known_domain(tld(k), sql_conn, decrypt))}
        stored == (h :> Dict(cache_item(servers, h, <<>>))) @@ MX_DNS_CACHE
    IN IF hits # {}
       THEN [result |-> Return(get_known_domain(tld(Min(hits)), sql_conn, decrypt)),
             cache |-> MX_DNS_CACHE,
             lookups |-> [k \in 1..Min(hits) |-> tld(k)]]
       ELSE [result |-> Return(stored[h]),
             cache |-> stored,
             lookups |-> [k \in 1..Len(servers) |-> tld(k)]]

\* on_dns_exception with NXDOMAIN answered None but not stored
on_dns_exception_nx_unstored(h, e) ==
    IF e = "Timeout"
    THEN [result |-> Return(PyFalse), cache |-> MX_DNS_CACHE, lookups |-> <<>>]
    ELSE IF e = "NXDOMAIN"
    THEN [result |-> Return(None), cache |-> MX_DNS_CACHE, lookups |-> <<>>]
    ELSE [result |-> Raise("DNSException"), cache |-> MX_DNS_CACHE, lookups |-> <<>>]

\* on_dns_exception with a timeout stored like NXDOMAIN
on_dns_exception_timeout_stored(h, e) ==
    IF e \in {"Timeout", "NXDOMAIN"}
    THEN [result |-> Return(IF e = "Timeout" THEN PyFalse ELSE None),
          cache |-> (h :> None) @@ MX_DNS_CACHE, lookups |-> <<>>]
    ELSE [result |-> Raise("DNSException"), cache |-> MX_DNS_CACHE, lookups |-> <<>>]

\* lines 149-158: the except clauses of get_mx_ip
on_dns_exception(h, e) ==
    IF e = "Timeout"
    THEN [result |-> Return(PyFalse), cache |-> MX_DNS_CACHE, lookups |-> <<>>]
    ELSE IF e = "NXDOMAIN"
    THEN [result |-> Return(((h :> None) @@ MX_DNS_CACHE)[h]),
          cache |-> (h :> None) @@ MX_DNS_CACHE, lookups |-> <<>>]
    ELSE [result |-> Raise("DNSException"), cache |-> MX_DNS_CACHE, lookups |-> <<>>]

\* lines 132-158 for a reply of the resolver: the result, the cache, the lookups
get_mx_ip_after(h, reply, sql_conn, decrypt) ==
    IF reply.k = "answer" THEN on_answer(h, reply.v, sql_conn, decrypt)
    ELSE on_dns_exception(h, reply.k)

(***************************************************************************)
(* validate_email, from the call to the first wait on the network.         *)
(***************************************************************************)
\* line 207: email[email.find('@') + 1:]
hostname_of(email) == From(email, Find(email, AT) + 1)

\* early_outcome without the assertion of line 201
early_outcome_no_assert(r) ==
    LET disposable == IF r.allow_disposable THEN Return(PyFalse)
                      ELSE is_disposable(r.email)
    IN IF disposable.k = "raise" THEN disposable
       ELSE IF disposable.v.v THEN Return(PyFalse)
       ELSE IF ~(r.check_mx \/ r.verify) THEN Return(PyTrue)
       ELSE NoOutcome

\* early_outcome without line 202: verify does not switch check_mx on
early_outcome_ignores_verify(r) ==
    LET disposable == IF r.allow_disposable THEN Return(PyFalse)
                      ELSE is_disposable(r.email)
    IN IF ~VALID_ADDRESS_REGEXP(r.email) THEN Raise("AssertionError")
       ELSE IF disposable.k = "raise" THEN disposable
       ELSE IF disposable.v.v THEN Return(PyFalse)
       ELSE IF ~r.check_mx THEN Return(PyTrue)
       ELSE NoOutcome

\* early_outcome without the test of check_mx at line 206
early_outcome_always_resolves(r) ==
    LET disposable == IF r.allow_disposable THEN Return(PyFalse)
                      ELSE is_disposable(r.email)
    IN IF ~VALID_ADDRESS_REGEXP(r.email) THEN Raise("AssertionError")
       ELSE IF disposable.k = "raise" THEN disposable
       ELSE IF disposable.v.v THEN Return(PyFalse)
       ELSE NoOutcome

\* lines 200-206: the result of a call that ends before it resolves the domain,
\* or NoOutcome for a call that goes on to get_mx_ip
early_outcome(r) ==
    LET disposable == IF r.allow_disposable THEN Return(PyFalse)
                      ELSE is_disposable(r.email)
    IN IF ~VALID_ADDRESS_REGEXP(r.email) THEN Raise("AssertionError")
       ELSE IF disposable.k = "raise" THEN disposable
       ELSE IF disposable.v.v THEN Return(PyFalse)
       ELSE IF ~(r.check_mx \/ r.verify) THEN Return(PyTrue)
       ELSE NoOutcome

validate_email(r) ==
    /\ pc \in {"idle", "done"}
    /\ calls < MaxCalls
    /\ early_outcome(r) = NoOutcome =>
           <<r.allow_disposable, r.sending_email, r.sql_conn, r.decrypt>> \in Profiles
    /\ calls' = calls + 1
    /\ smtp' = "unbound"
    /\ pending' = Continue
    /\ contacted' = <<>>
    /\ last' = NoResult
    /\ released' = ""
    /\ UNCHANGED <<caches, libFaults>>
    /\ LET early == early_outcome(r)
           h == hostname_of(r.email)
           mx == get_mx_ip_before(h, r.sql_conn, r.decrypt)
           unresolved == /\ hostname' = <<>> /\ mx_hosts' = None /\ i' = 0
                         /\ dnsLog' = <<>> /\ lookups' = <<>>
       IN IF early.k = "raise" /\ early.v.v = "AssertionError"
          THEN Outer(early) /\ args' = r /\ unresolved
          ELSE /\ args' = [r EXCEPT !.check_mx = r.check_mx \/ r.verify]
               /\ IF early.k = "raise" THEN Outer(early) /\ unresolved
                  ELSE IF early.k = "return" THEN Finish(early) /\ unresolved
                  ELSE /\ hostname' = h
                       /\ lookups' = <<h>>
                       /\ IF mx.k = "raise"
                          THEN Outer(mx) /\ mx_hosts' = None /\ i' = 0 /\ dnsLog' = <<>>
                          ELSE IF mx.k = "return"
                          THEN Dispatch(mx.v) /\ dnsLog' = <<>>
                          ELSE /\ pc' = "dns"
                               /\ outcome' = NoOutcome
                               /\ mx_hosts' = None
                               /\ i' = 0
                               /\ dnsLog' = <<[hostname |-> h, reply |-> "?"]>>

\* the orders in which a dict may hand out its keys to "for mx in mx_hosts":
\* insertion order on CPython 3.7 and later, any order on the Python 2 and
\* the older Python 3 that the module also runs on.  A dict keeps the order
\* it has for as long as it is not written to.
dict_orders(m) ==
    IF m.t = "dict"
    THEN {Dict([k \in DOMAIN m.v |-> m.v[f[k]]]) : f \in Permutations(DOMAIN m.v)}
    ELSE {m}

\* the resolver replies: the rest of get_mx_ip, then lines 210-214
DnsReply(reply) ==
    /\ pc = "dns"
    /\ LET r == get_mx_ip_after(hostname, reply, args.sql_conn, args.decrypt)
       IN /\ lookups' = lookups \o r.lookups
          /\ IF r.result.k = "raise"
             THEN /\ MX_DNS_CACHE' = r.cache
                  /\ Outer(r.result) /\ mx_hosts' = mx_hosts /\ i' = i
             ELSE \E m \in dict_orders(r.result.v) :
                      \* the dict stored at line 148 is the dict returned
                      /\ MX_DNS_CACHE' =
                             IF hostname \in DOMAIN r.cache /\ r.cache[hostname] = r.result.v
                             THEN [r.cache EXCEPT ![hostname] = m]
                             ELSE r.cache
                      /\ Dispatch(m)
    /\ dnsLog' = <<[hostname |-> hostname, reply |-> reply.k]>>
    /\ UNCHANGED <<MX_CHECK_CACHE, libFaults, args, hostname, smtp, pending, calls,
                   contacted, last, released>>

(***************************************************************************)
(* The loop over mx_hosts: lines 214-270.                                  *)
(***************************************************************************)
\* the entry of mx_hosts the loop is at, and its key
mx_entry == mx_hosts.v[i]
mx == mx_entry.server

\* the try block is left with p: its finally clause runs next
Leave(p) == pc' = "finally" /\ pending' = p

\* Reachable without line 234
Reachable_unrecorded ==
    /\ UNCHANGED MX_CHECK_CACHE
    /\ IF ~args.verify THEN Leave(Return(PyTrue))
       ELSE pc' = "helo" /\ pending' = pending

\* Reachable with False stored at line 234
Reachable_records_false ==
    /\ MX_CHECK_CACHE' = (mx :> PyFalse) @@ MX_CHECK_CACHE
    /\ IF ~args.verify THEN Leave(Return(PyTrue))
       ELSE pc' = "helo" /\ pending' = pending

\* Reachable with a cache of one entry: the exchanger last reached
Reachable_keeps_one ==
    /\ MX_CHECK_CACHE' = (mx :> PyTrue)
    /\ IF ~args.verify THEN Leave(Return(PyTrue))
       ELSE pc' = "helo" /\ pending' = pending

\* lines 234-238, once connected and logged in
Reachable ==
    /\ MX_CHECK_CACHE' = (mx :> PyTrue) @@ MX_CHECK_CACHE
    /\ IF ~args.verify THEN Leave(Return(PyTrue))
       ELSE pc' = "helo" /\ pending' = pending

\* Except without the clause of lines 260-261
Except_disconnect_unhandled(err) ==
    IF err = "SMTPConnectError" THEN Leave(Continue)
    ELSE Leave(Raise(err))

\* an exception of the transport inside the try block: lines 260-263
Except(err) ==
    IF err \in {"SMTPServerDisconnected", "SMTPConnectError"}
    THEN Leave(Continue)
    ELSE Leave(Raise(err))

\* the connection after a failed operation: a disconnect closes it
After(err) == IF err = "SMTPException" THEN smtp ELSE "closed"

\* LoopHead with the cache consulted whatever verify says
LoopHead_cache_first ==
    /\ pc = "loop"
    /\ IF i > Len(mx_hosts.v)
       THEN Finish(Return(None)) /\ UNCHANGED <<smtp, pending>>
       ELSE IF mx \in DOMAIN MX_CHECK_CACHE
       THEN Leave(Return(MX_CHECK_CACHE[mx])) /\ UNCHANGED <<smtp, outcome>>
       ELSE /\ smtp' = "closed"
            /\ pc' = "connect"
            /\ UNCHANGED <<pending, outcome>>
    /\ UNCHANGED <<caches, libFaults, args, hostname, mx_hosts, i, history>>

\* LoopHead with False returned after the loop, as the comment of line 270 suggests
LoopHead_returns_false ==
    /\ pc = "loop"
    /\ IF i > Len(mx_hosts.v)
       THEN Finish(Return(PyFalse)) /\ UNCHANGED <<smtp, pending>>
       ELSE IF ~args.verify /\ mx \in DOMAIN MX_CHECK_CACHE
       THEN Leave(Return(MX_CHECK_CACHE[mx])) /\ UNCHANGED <<smtp, outcome>>
       ELSE /\ smtp' = "closed"
            /\ pc' = "connect"
            /\ UNCHANGED <<pending, outcome>>
    /\ UNCHANGED <<caches, libFaults, args, hostname, mx_hosts, i, history>>

\* lines 214-219: the next mx, the end of the loop, or the cached boolean
LoopHead ==
    /\ pc = "loop"
    /\ IF i > Len(mx_hosts.v)
       THEN Finish(Return(None)) /\ UNCHANGED <<smtp, pending>>
       ELSE IF ~args.verify /\ mx \in DOMAIN MX_CHECK_CACHE
       THEN Leave(Return(MX_CHECK_CACHE[mx])) /\ UNCHANGED <<smtp, outcome>>
       ELSE /\ smtp' = "closed"  \* a new SMTP or SMTP_SSL object, not connected
            /\ pc' = "connect"
            /\ UNCHANGED <<pending, outcome>>
    /\ UNCHANGED <<caches, libFaults, args, hostname, mx_hosts, i, history>>

\* Connect over a plain socket whatever is_ssl says
Connect_always_plain(res) ==
    /\ pc = "connect"
    /\ contacted' = Append(contacted,
                           [server |-> mx, port |-> mx_entry.port, ssl |-> FALSE])
    /\ last' = Result("connect", 0, res)
    /\ IF res # "ok"
       THEN Except(res) /\ smtp' = "closed" /\ UNCHANGED MX_CHECK_CACHE
       ELSE /\ smtp' = "open"
            /\ IF Truthy(mx_entry.username) /\ Truthy(mx_entry.password)
               THEN pc' = "login" /\ UNCHANGED <<pending, MX_CHECK_CACHE>>
               ELSE Reachable
    /\ UNCHANGED <<MX_DNS_CACHE, libFaults, args, hostname, mx_hosts, i, outcome, calls, dnsLog,
                   lookups, released>>

\* Connect with a login whenever the record has a username
Connect_login_on_username(res) ==
    /\ pc = "connect"
    /\ contacted' = Append(contacted,
                           [server |-> mx, port |-> mx_entry.port,
                            ssl |-> mx_entry.is_ssl > 0])
    /\ last' = Result("connect", 0, res)
    /\ IF res # "ok"
       THEN Except(res) /\ smtp' = "closed" /\ UNCHANGED MX_CHECK_CACHE
       ELSE /\ smtp' = "open"
            /\ IF Truthy(mx_entry.username)
               THEN pc' = "login" /\ UNCHANGED <<pending, MX_CHECK_CACHE>>
               ELSE Reachable
    /\ UNCHANGED <<MX_DNS_CACHE, libFaults, args, hostname, mx_hosts, i, outcome, calls, dnsLog,
                   lookups, released>>

\* lines 221-238: smtp.connect, then login or the reachability entry
Connect(res) ==
    /\ pc = "connect"
    /\ contacted' = Append(contacted,
                           [server |-> mx, port |-> mx_entry.port,
                            ssl |-> mx_entry.is_ssl > 0])
    /\ last' = Result("connect", 0, res)
    /\ IF res # "ok"
       THEN Except(res) /\ smtp' = "closed" /\ UNCHANGED MX_CHECK_CACHE
       ELSE /\ smtp' = "open"
            /\ IF Truthy(mx_entry.username) /\ Truthy(mx_entry.password)
               THEN pc' = "login" /\ UNCHANGED <<pending, MX_CHECK_CACHE>>
               ELSE Reachable
    /\ UNCHANGED <<MX_DNS_CACHE, libFaults, args, hostname, mx_hosts, i, outcome, calls, dnsLog,
                   lookups, released>>

\* Login with line 234 moved before the login
Login_after_record(res) ==
    /\ pc = "login"
    /\ last' = Result("login", 0, res)
    /\ IF res # "ok"
       THEN /\ Except(res) /\ smtp' = After(res)
            /\ MX_CHECK_CACHE' = (mx :> PyTrue) @@ MX_CHECK_CACHE
       ELSE Reachable /\ UNCHANGED smtp
    /\ UNCHANGED <<MX_DNS_CACHE, libFaults, args, hostname, mx_hosts, i, outcome, calls, dnsLog,
                   lookups, contacted, released>>

\* line 232: smtp.login
Login(res) ==
    /\ pc = "login"
    /\ last' = Result("login", 0, res)
    /\ IF res # "ok"
       THEN Except(res) /\ smtp' = After(res) /\ UNCHANGED MX_CHECK_CACHE
       ELSE Reachable /\ UNCHANGED smtp
    /\ UNCHANGED <<MX_DNS_CACHE, libFaults, args, hostname, mx_hosts, i, outcome, calls, dnsLog,
                   lookups, contacted, released>>

\* envelope_sender with the sender of the caller before the username
envelope_sender_caller_first ==
    IF Truthy(args.sending_email) THEN args.sending_email
    ELSE IF Truthy(mx_entry.username) THEN mx_entry.username
    ELSE Str(<<"admin", AT>> \o hostname)

\* lines 244-247: the envelope sender
envelope_sender ==
    IF Truthy(mx_entry.username) THEN mx_entry.username
    ELSE IF ~Truthy(args.sending_email) THEN Str(<<"admin", AT>> \o hostname)
    ELSE args.sending_email

\* Helo without lines 249-250: RCPT TO follows HELO
Helo_then_rcpt(code, err) ==
    /\ pc = "helo"
    /\ last' = Result("helo", code, err)
    /\ IF err # ""
       THEN Except(err) /\ smtp' = After(err) /\ UNCHANGED args
       ELSE /\ UNCHANGED smtp
            /\ IF ~Truthy(check_command(code))
               THEN Leave(Continue) /\ UNCHANGED args
               ELSE /\ args' = [args EXCEPT !.sending_email = envelope_sender]
                    /\ pc' = "rcpt"
                    /\ UNCHANGED pending
    /\ UNCHANGED <<caches, libFaults, hostname, mx_hosts, i, outcome, calls, dnsLog, lookups,
                   contacted, released>>

\* lines 240-247: smtp.helo
Helo(code, err) ==
    /\ pc = "helo"
    /\ last' = Result("helo", code, err)
    /\ IF err # ""
       THEN Except(err) /\ smtp' = After(err) /\ UNCHANGED args
       ELSE /\ UNCHANGED smtp
            /\ IF ~Truthy(check_command(code))
               THEN Leave(Continue) /\ UNCHANGED args
               ELSE /\ args' = [args EXCEPT !.sending_email = envelope_sender]
                    /\ pc' = "mail"
                    /\ UNCHANGED pending
    /\ UNCHANGED <<caches, libFaults, hostname, mx_hosts, i, outcome, calls, dnsLog, lookups,
                   contacted, released>>

\* Mail with the reply to MAIL FROM judged like the reply to RCPT TO
Mail_judged_like_rcpt(code, err) ==
    /\ pc = "mail"
    /\ last' = Result("mail", code, err)
    /\ IF err # ""
       THEN Except(err) /\ smtp' = After(err)
       ELSE /\ UNCHANGED smtp
            /\ IF check_command(code) = PyFalse
               THEN Leave(Return(PyFalse))
               ELSE IF ~Truthy(check_command(code))
               THEN Leave(Continue)
               ELSE pc' = "rcpt" /\ UNCHANGED pending
    /\ UNCHANGED <<caches, libFaults, args, hostname, mx_hosts, i, outcome, calls, dnsLog,
                   lookups, contacted, released>>

\* lines 249-250: smtp.mail
Mail(code, err) ==
    /\ pc = "mail"
    /\ last' = Result("mail", code, err)
    /\ IF err # ""
       THEN Except(err) /\ smtp' = After(err)
       ELSE /\ UNCHANGED smtp
            /\ IF ~Truthy(check_command(code))
               THEN Leave(Continue)
               ELSE pc' = "rcpt" /\ UNCHANGED pending
    /\ UNCHANGED <<caches, libFaults, args, hostname, mx_hosts, i, outcome, calls, dnsLog,
                   lookups, contacted, released>>

\* rcpt_verdict with a 550 treated like an unknown code
rcpt_verdict_550_continues(rcpt) ==
    IF Truthy(rcpt) THEN Return(PyTrue) ELSE Continue

\* rcpt_verdict with an unknown code treated like a 550
rcpt_verdict_unknown_fails(rcpt) ==
    IF Truthy(rcpt) THEN Return(PyTrue) ELSE Return(PyFalse)

\* lines 253-259: what the reply to RCPT makes the loop do
rcpt_verdict(rcpt) ==
    IF Truthy(rcpt) THEN Return(PyTrue)
    ELSE IF rcpt.t = "None" THEN Continue
    ELSE Return(PyFalse)

\* lines 252-259: smtp.rcpt
Rcpt(code, err) ==
    /\ pc = "rcpt"
    /\ last' = Result("rcpt", code, err)
    /\ IF err # ""
       THEN Except(err) /\ smtp' = After(err)
       ELSE Leave(rcpt_verdict(check_command(code))) /\ UNCHANGED smtp
    /\ UNCHANGED <<caches, libFaults, args, hostname, mx_hosts, i, outcome, calls, dnsLog,
                   lookups, contacted, released>>

\* after the finally clause: return, go on with the next mx, or raise
Resume(p, quit) ==
    IF p.k = "return"
    THEN Finish(p) /\ i' = i /\ last' = last /\ released' = quit
    ELSE IF p.k = "continue"
    THEN pc' = "loop" /\ i' = i + 1 /\ outcome' = outcome /\ last' = NoResult
         /\ released' = ""
    ELSE Outer(p) /\ i' = i /\ last' = last /\ released' = quit

\* Finally as an else clause: no quit when the try block raised
Finally_unless_raised(res) ==
    /\ pc = "finally"
    /\ IF smtp = "unbound"
       THEN /\ res = "SMTPServerDisconnected"
            /\ Outer(Raise("UnboundLocalError"))
            /\ UNCHANGED <<i, smtp, last, released>>
       ELSE IF smtp = "closed" \/ pending.k = "raise"
       THEN /\ res = "SMTPServerDisconnected"
            /\ Resume(pending, released)
            /\ UNCHANGED smtp
       ELSE IF res = "SMTPException"
       THEN Outer(Raise(res)) /\ released' = res /\ UNCHANGED <<i, smtp, last>>
       ELSE Resume(pending, res) /\ smtp' = "closed"
    /\ UNCHANGED <<caches, libFaults, args, hostname, mx_hosts, pending, calls, dnsLog, lookups,
                   contacted>>

\* lines 264-268: smtp.quit() in the finally clause
Finally(res) ==
    /\ pc = "finally"
    /\ IF smtp = "unbound"
       THEN \* no SMTP object was made in this call: smtp is an unbound local
            /\ res = "SMTPServerDisconnected"
            /\ Outer(Raise("UnboundLocalError"))
            /\ UNCHANGED <<i, smtp, last, released>>
       ELSE IF smtp = "closed"
       THEN \* no socket: quit raises SMTPServerDisconnected, which is passed
            /\ res = "SMTPServerDisconnected"
            /\ Resume(pending, released)
            /\ UNCHANGED smtp
       ELSE IF res = "SMTPException"
       THEN Outer(Raise(res)) /\ released' = res /\ UNCHANGED <<i, smtp, last>>
       ELSE Resume(pending, res) /\ smtp' = "closed"
    /\ UNCHANGED <<caches, libFaults, args, hostname, mx_hosts, pending, calls, dnsLog, lookups,
                   contacted>>

Next ==
    \/ \E r \in Requests : validate_email(r)
    \/ \E reply \in DnsReplies(hostname) : DnsReply(reply)
    \/ LoopHead
    \/ \E res \in ConnectResults : Connect(res)
    \/ \E res \in LoginResults : Login(res)
    \/ \E code \in Codes : Helo(code, "")
    \/ \E err \in CommandErrors(libFaults) : Helo(0, err)
    \/ \E code \in Codes : Mail(code, "")
    \/ \E err \in CommandErrors(libFaults) : Mail(0, err)
    \/ \E code \in Codes : Rcpt(code, "")
    \/ \E err \in CommandErrors(libFaults) : Rcpt(0, err)
    \/ \E res \in QuitResults(libFaults) : Finally(res)

\* the transport as lines 260-268 provide for it
Spec == Init /\ [][Next]_vars

\* the transport with commands that raise another SMTPException
SpecFaults == InitFaults /\ [][Next]_vars

(***************************************************************************)
(* Vocabulary of the properties.                                           *)
(***************************************************************************)
Valid == outcome = Return(PyTrue)
Invalid == outcome = Return(PyFalse)
Unknown == outcome = Return(None)

\* this call entered get_mx_ip
Resolved == lookups # <<>>

\* the directory sql_conn has a row for domain h
HasEntry(h, sql_conn) ==
    Truthy(sql_conn) /\ \E k \in DOMAIN connectionView : connectionView[k][1].v = h

\* the row that fetchone hands out for this domain: the first of the view
RowOf(domain) ==
    connectionView[Min({k \in DOMAIN connectionView : connectionView[k][1].v = domain})]

\* this call queried the resolver and got this reply
Queried(reply) == dnsLog # <<>> /\ dnsLog[1].reply = reply

\* the MX cache holds NoSuchDomain for h
NxCached(h) == h \in DOMAIN MX_DNS_CACHE /\ MX_DNS_CACHE[h].t = "None"

\* the exchanger at hand replied this code to RCPT TO
RcptReplied(code) == last = Result("rcpt", code, "")

\* the connections of this call went to the first n exchangers, in order
ContactedFirst(n) ==
    /\ Len(contacted) = n
    /\ \A k \in 1..n : contacted[k].server = mx_hosts.v[k].server

\* a step that is a new call of validate_email
IsCall == calls' = calls + 1

\* the domain after the last "@" is no disposable domain
NonDisposable(email) ==
    RSplit1(email, AT)[Len(RSplit1(email, AT))] \notin _disposable

(***************************************************************************)
(* C1: no MX query is ever issued for a hostname that has a directory      *)
(* entry: a call that resolves such a hostname never waits on the resolver *)
(* and logs no query, whatever the MX cache holds.                         *)
(***************************************************************************)
C1_NoQueryForKnownDomain ==
    /\ \A k \in DOMAIN dnsLog : ~HasEntry(dnsLog[k].hostname, args.sql_conn)
    /\ (Resolved /\ HasEntry(hostname, args.sql_conn)) => (pc = "done" /\ dnsLog = <<>>)

C1_Witness ==
    /\ pc = "done"
    /\ Resolved
    /\ HasEntry(hostname, args.sql_conn)
    /\ hostname \in DOMAIN MX_DNS_CACHE
    /\ dnsLog = <<>>

(***************************************************************************)
(* C2: a call that resolves a hostname with a directory entry ends with a  *)
(* verdict, Valid, Invalid or Unknown, and not with an error.              *)
(***************************************************************************)
C2_KnownDomainGivesVerdict ==
    (pc = "done" /\ Resolved /\ HasEntry(hostname, args.sql_conn))
        => (Valid \/ Invalid \/ Unknown)

C4_Inv ==
    /\ RcptReplied(250) =>
           /\ args.verify
           /\ pc \in {"finally", "done"}
           /\ pc = "finally" => pending = Return(PyTrue)
           /\ pc = "done" => Valid
           /\ ContactedFirst(i)
    /\ \A code \in Codes \ {250, 550} :
           RcptReplied(code) =>
               pc = "finally" /\ pending = Continue /\ outcome = NoOutcome

C4_Step ==
    /\ (pc = "finally" /\ last.op = "rcpt" /\ last.err = "" /\ last.code \notin {250, 550})
           => (pc' = "loop" /\ i' = i + 1 /\ outcome' = NoOutcome)
    /\ (pc = "loop" /\ args.verify /\ i <= Len(mx_hosts.v))
           => (pc' = "connect" /\ i' = i)
    /\ (pc = "connect" /\ pc' # "connect")
           => (contacted' = Append(contacted, contacted'[Len(contacted')])
               /\ contacted'[Len(contacted')].server = mx)

C5_NoAnswerIsInvalid ==
    (pc = "done" /\ Queried("NoAnswer")) => (Invalid /\ NxCached(hostname))

(***************************************************************************)
(* C6: a query that fails with NXDOMAIN stores NoSuchDomain under the      *)
(* hostname and ends the call Invalid; the entry stays, and every later    *)
(* call that resolves the hostname (it has no directory entry) ends        *)
(* Invalid at once without a query.                                        *)
(***************************************************************************)
C6_Inv ==
    Queried("NXDOMAIN") =>
        /\ pc = "done"
        /\ Invalid
        /\ dnsLog[1].hostname = hostname
        /\ NxCached(hostname)

C6_Step ==
    \A h \in DOMAIN MX_DNS_CACHE :
        NxCached(h) =>
            /\ h \in DOMAIN MX_DNS_CACHE' /\ MX_DNS_CACHE'[h].t = "None"
            /\ (IsCall /\ hostname' = h /\ ~HasEntry(h, args'.sql_conn))
                   => (pc' = "done" /\ outcome' = Return(PyFalse) /\ dnsLog' = <<>>)

C6_NxDomainIsCached == []C6_Inv /\ [][C6_Step]_vars

C6_Witness ==
    /\ calls = 2
    /\ pc = "done"
    /\ Resolved
    /\ NxCached(hostname)
    /\ dnsLog = <<>>
    /\ Invalid

(***************************************************************************)
(* C7: a query that times out ends the call Unknown with no connection     *)
(* attempted and leaves the MX cache as it was, without the hostname; the  *)
(* next call that resolves the hostname queries the resolver again.        *)
(***************************************************************************)
C7_Inv ==
    Queried("Timeout") =>
        /\ pc = "done"
        /\ Unknown
        /\ contacted = <<>>
        /\ hostname \notin DOMAIN MX_DNS_CACHE

C7_Step ==
    /\ (pc = "dns" /\ dnsLog'[1].reply = "Timeout") => UNCHANGED MX_DNS_CACHE
    /\ (Queried("Timeout") /\ IsCall /\ hostname' = hostname
          /\ ~HasEntry(hostname, args'.sql_conn))
           => (pc' = "dns" /\ dnsLog' = <<[hostname |-> hostname, reply |-> "?"]>>)

C7_TimeoutIsNotCached == []C7_Inv /\ [][C7_Step]_vars

C7_Witness ==
    /\ pc = "done"
    /\ Queried("Timeout")
    /\ Unknown
    /\ DOMAIN MX_DNS_CACHE # {}

(***************************************************************************)
(* C8: a query that fails otherwise (NoNameservers) ends the call with the *)
(* DNS exception raised to the caller, no verdict and no connection, and   *)
(* neither the call nor the reply changes either cache.                    *)
(***************************************************************************)
C8_Inv ==
    Queried("NoNameservers") =>
        /\ pc = "done"
        /\ outcome = Raise("DNSException")
        /\ contacted = <<>>

C8_Step ==
    /\ (pc = "dns" /\ dnsLog'[1].reply = "NoNameservers") => UNCHANGED caches
    /\ IsCall => UNCHANGED caches

C8_OtherDnsFailurePropagates == []C8_Inv /\ [][C8_Step]_vars

C8_Witness ==
    /\ pc = "done"
    /\ Queried("NoNameservers")
    /\ outcome = Raise("DNSException")
    /\ DOMAIN MX_DNS_CACHE # {}
    /\ DOMAIN MX_CHECK_CACHE # {}

(***************************************************************************)
(* C9: without verify, when the loop finds the exchanger in the            *)
(* reachability cache the call returns the cached boolean, with no         *)
(* connection to that exchanger.                                           *)
(***************************************************************************)
\* the loop left the try block at line 219 for the exchanger it is at
CacheHit ==
    /\ ~args.verify
    /\ mx_hosts.t = "dict"
    /\ i \in 1..Len(mx_hosts.v)
    /\ mx \in DOMAIN MX_CHECK_CACHE
    /\ \A k \in DOMAIN contacted : contacted[k].server # mx

C9_CachedBooleanIsReturned ==
    (pc = "done" /\ CacheHit) => outcome = Return(MX_CHECK_CACHE[mx])

(***************************************************************************)
(* C10: a call without check_mx and verify for a well-formed address of no *)
(* disposable domain ends Valid at once, in every state it is made in,     *)
(* with no MX query, no directory lookup and no connection, and changes    *)
(* neither cache.                                                          *)
(***************************************************************************)
SyntaxOnly ==
    /\ calls > 0
    /\ VALID_ADDRESS_REGEXP(args.email)
    /\ NonDisposable(args.email)
    /\ ~args.check_mx
    /\ ~args.verify

C10_Inv ==
    SyntaxOnly =>
        /\ pc = "done"
        /\ Valid
        /\ dnsLog = <<>>
        /\ lookups = <<>>
        /\ contacted = <<>>

C10_Step == (IsCall /\ SyntaxOnly') => UNCHANGED caches

C10_SyntaxOnlyIsValid == []C10_Inv /\ [][C10_Step]_vars

C10_Witness ==
    /\ calls = 2
    /\ pc = "done"
    /\ args.email = PlainEmail
    /\ SyntaxOnly
    /\ Valid
    /\ DOMAIN MX_DNS_CACHE # {}
    /\ DOMAIN MX_CHECK_CACHE # {}

(***************************************************************************)
(* C11: a call for an address that fails the syntax check ends Invalid,    *)
(* whatever its other arguments and whatever the caches hold, with no MX   *)
(* query, no directory lookup and no connection, and changes neither       *)
(* cache.                                                                  *)
(***************************************************************************)
IllFormed == calls > 0 /\ ~VALID_ADDRESS_REGEXP(args.email)

C11_Inv ==
    IllFormed =>
        /\ pc = "done"
        /\ Invalid
        /\ dnsLog = <<>>
        /\ lookups = <<>>
        /\ contacted = <<>>

C11_Step == (IsCall /\ IllFormed') => UNCHANGED caches

C11_IllFormedIsInvalid == []C11_Inv /\ [][C11_Step]_vars

C11_Witness ==
    /\ calls = 2
    /\ pc = "done"
    /\ args.email = BadEmail
    /\ args.check_mx
    /\ args.verify
    /\ ~args.allow_disposable
    /\ args.sql_conn = Db
    /\ Invalid
    /\ DOMAIN MX_DNS_CACHE # {}
    /\ DOMAIN MX_CHECK_CACHE # {}

(***************************************************************************)
(* C12: a call with allow_disposable false for a well-formed address whose *)
(* domain after the last "@" is in the disposable list ends Invalid,       *)
(* before any resolution of the domain and any connection.                 *)
(***************************************************************************)
C12_DisposableIsInvalid ==
    (/\ pc = "done"
     /\ VALID_ADDRESS_REGEXP(args.email)
     /\ ~args.allow_disposable
     /\ ~NonDisposable(args.email))
        => (Invalid /\ lookups = <<>> /\ dnsLog = <<>> /\ contacted = <<>>)

(***************************************************************************)
(* C13: when the loop has gone through every exchanger of mx_hosts and     *)
(* none gave a verdict, a connection was attempted to each of them in      *)
(* order and the call ends Unknown.                                        *)
(***************************************************************************)
\* the for loop of line 214 has no exchanger left
Exhausted == mx_hosts.t = "dict" /\ i > Len(mx_hosts.v)

C13_Inv ==
    Exhausted =>
        /\ pc \in {"loop", "done"}
        /\ pc = "done" => Unknown
        /\ ContactedFirst(Len(mx_hosts.v))

C13_Step == (pc = "loop" /\ Exhausted) => (pc' = "done" /\ outcome' = Return(None))

C13_ExhaustedIsUnknown == []C13_Inv /\ [][C13_Step]_vars

C13_Witness ==
    /\ pc = "done"
    /\ Exhausted
    /\ Len(mx_hosts.v) = 2
    /\ args.verify
    /\ Unknown

(***************************************************************************)
(* C14: a socket.error raised while probing, which no except clause of the *)
(* loop handles, leaves the try block as an exception and ends the call    *)
(* Unknown: it is not raised to the caller and gives no Valid or Invalid.  *)
(***************************************************************************)
SocketError == last.err = "socket.error"

C14_Inv ==
    SocketError =>
        \/ pc = "finally" /\ pending = Raise("socket.error")
        \/ pc = "done" /\ Unknown

C14_Step ==
    (pc = "finally" /\ pending = Raise("socket.error"))
        => (pc' = "done" /\ outcome' = Return(None))

C14_SocketErrorIsUnknown == []C14_Inv /\ [][C14_Step]_vars

C14_Witness ==
    /\ pc = "done"
    /\ SocketError
    /\ i < Len(mx_hosts.v)
    /\ Unknown

(***************************************************************************)
(* C15: verify implies check_mx.  A call with verify true and check_mx     *)
(* false takes, from every state, exactly the steps of the call with both  *)
(* true: the two calls lead to the same states, so that the resolution and *)
(* the probing that follow are the same; and a call with verify runs with  *)
(* check_mx true.                                                          *)
(***************************************************************************)
C15_Inv ==
    (calls > 0 /\ args.verify /\ VALID_ADDRESS_REGEXP(args.email)) => args.check_mx

\* a step is the call with verify alone exactly if it is the call with both
C15_Step ==
    (IsCall /\ args'.verify /\ VALID_ADDRESS_REGEXP(args'.email))
        => (validate_email([args' EXCEPT !.check_mx = FALSE])
                <=> validate_email([args' EXCEPT !.check_mx = TRUE]))

C15_VerifyImpliesCheckMx == []C15_Inv /\ [][C15_Step]_vars

C15_Witness ==
    /\ pc = "rcpt"
    /\ args.verify
    /\ args.check_mx
    /\ contacted # <<>>
    /\ dnsLog # <<>>

(***************************************************************************)
(* C16: a connection is open only inside the attempt on its exchanger.     *)
(* Every way out of the try block, a verdict, a continue after a rejected  *)
(* command, a disconnect or an exception, passes the finally clause, which *)
(* quits an open connection; on a connection already closed the quit       *)
(* raises SMTPServerDisconnected, which is passed, and the try block ends  *)
(* as it was going to.  No connection is open when the loop takes the next *)
(* exchanger nor when the call returns or raises.                          *)
(***************************************************************************)
C16_Inv ==
    /\ smtp = "open" => pc \in {"login", "helo", "mail", "rcpt", "finally"}
    /\ (pc = "done" /\ released # "") => (smtp = "closed" /\ contacted # <<>>)

C16_Step ==
    /\ (pc \in {"login", "helo", "mail", "rcpt"} /\ pc' \notin {"helo", "mail", "rcpt"})
           => pc' = "finally"
    /\ (pc = "finally" /\ smtp = "open")
           => (smtp' = "closed" /\ (pending.k # "continue" => released' # ""))
    /\ (pc = "finally" /\ smtp = "closed" /\ pending.k = "return")
           => (pc' = "done" /\ outcome' = pending)
    /\ (pc = "finally" /\ smtp = "closed" /\ pending.k = "continue")
           => (pc' = "loop" /\ i' = i + 1)

C17_AnsweredIsCached ==
    (dnsLog # <<>> /\ dnsLog[1].reply \in {"answer", "NXDOMAIN"})
        => (hostname \in DOMAIN MX_DNS_CACHE /\ MX_DNS_CACHE[hostname] = mx_hosts)

(***************************************************************************)
(* C18: the record get_known_domain returns for a row of the directory has *)
(* the domain, server, ssl flag and port of the row; its username and      *)
(* password are those of the row when decrypt is None or the identity,     *)
(* and decrypt applied to each of the two that is not NULL otherwise.  So  *)
(* is every directory record that validate_email gets from get_mx_ip.      *)
(***************************************************************************)
Decrypts == <<None, Fn("id"), Fn("strip")>>

\* a field of a row as the record is to have it
Decrypted(decrypt, x) ==
    IF x.t = "None" \/ decrypt.t = "None" \/ decrypt = Fn("id") THEN x
    ELSE Str(Tail(x.v))

RecordOf(row, decrypt) ==
    [server |-> row[2].v, domain |-> row[1].v,
     username |-> Decrypted(decrypt, row[3]), password |-> Decrypted(decrypt, row[4]),
     is_ssl |-> row[5], port |-> row[6]]

\* mx_hosts came from the directory and not from an MX answer
IsDirectoryRoute == mx_hosts.t = "dict" /\ mx_hosts.v[1].domain # hostname

C18_DirectoryRecord ==
    /\ \A k \in DOMAIN connectionView, d \in DOMAIN Decrypts :
           get_known_domain(connectionView[k][1].v, Db, Decrypts[d])
               = Dict(<<RecordOf(RowOf(connectionView[k][1].v), Decrypts[d])>>)
    /\ IsDirectoryRoute =>
           \E k \in DOMAIN connectionView :
               mx_hosts = Dict(<<RecordOf(connectionView[k], args.decrypt)>>)

C18_Witness ==
    /\ IsDirectoryRoute
    /\ args.decrypt = Fn("strip")
    /\ mx_hosts.v[1].username = Str(<<"Required">>)
    /\ mx_hosts.v[1].password = None
    /\ mx_hosts.v[1].port = 465
    /\ pc = "helo"

(***************************************************************************)
(* C19: when smtp.connect fails, the attempt on this exchanger ends        *)
(* without a verdict and the loop goes on with the next exchanger.         *)
(***************************************************************************)
C19_ConnectFailureAdvances ==
    (last.op = "connect" /\ last.err # "ok")
        => (pc = "finally" /\ pending = Continue)

(***************************************************************************)
(* C20: when smtp.login fails, the attempt on this exchanger ends like     *)
(* after a failed connect: no exception leaves the loop, and the loop goes *)
(* on with the next exchanger.                                             *)
(***************************************************************************)
C20_LoginFailureAdvances ==
    (last.op = "login" /\ last.err # "ok")
        => (pc = "finally" /\ pending = Continue /\ smtp # "unbound")

(***************************************************************************)
(* C21: when helo, mail or rcpt ends with SMTPServerDisconnected, the      *)
(* exception is handled inside the loop: the attempt on this exchanger     *)
(* ends without a verdict and the loop goes on with the next exchanger.    *)
(***************************************************************************)
Disconnected ==
    last.op \in {"helo", "mail", "rcpt"} /\ last.err = "SMTPServerDisconnected"

C21_Inv ==
    Disconnected =>
        /\ pc = "finally"
        /\ pending = Continue
        /\ outcome = NoOutcome
        /\ smtp = "closed"

C21_Step ==
    (pc = "finally" /\ Disconnected)
        => (pc' = "loop" /\ i' = i + 1 /\ outcome' = NoOutcome /\ UNCHANGED contacted)

C21_DisconnectIsSkipped == []C21_Inv /\ [][C21_Step]_vars

C21_Witness ==
    /\ pc = "finally"
    /\ last = Result("mail", 0, "SMTPServerDisconnected")
    /\ i < Len(mx_hosts.v)
    /\ pending = Continue

(***************************************************************************)
(* C22: after a reply to HELO or to MAIL FROM, the next command is sent on *)
(* this connection only if the code is 250; after 550 and after any other  *)
(* code the attempt on this exchanger ends with a continue: no further     *)
(* command is sent to it, no verdict is returned, and the loop goes on     *)
(* with the next exchanger.                                                *)
(***************************************************************************)
HandshakeReply == last.op \in {"helo", "mail"} /\ last.err = ""

C22_Inv ==
    HandshakeReply =>
        IF last.code = 250
        THEN /\ pc = (IF last.op = "helo" THEN "mail" ELSE "rcpt")
             /\ smtp = "open"
        ELSE /\ pc = "finally"
             /\ pending = Continue
             /\ outcome = NoOutcome

C22_Step ==
    (pc = "finally" /\ HandshakeReply)
        => (pc' = "loop" /\ i' = i + 1 /\ outcome' = NoOutcome /\ UNCHANGED contacted)

Rank(p) ==
    CASE p = "connect" -> 1 [] p = "login" -> 2 [] p = "helo" -> 3
      [] p = "mail" -> 4 [] p = "rcpt" -> 5 [] p = "finally" -> 6 [] OTHER -> 0

HasCredentials == Truthy(mx_entry.username) /\ Truthy(mx_entry.password)

C23_Inv ==
    /\ pc \in {"login", "helo", "mail", "rcpt"} =>
           /\ smtp = "open"
           /\ ContactedFirst(i)
    /\ pc = "login" => HasCredentials
    /\ pc \in {"helo", "mail", "rcpt"} => args.verify

C23_Step ==
    /\ (Rank(pc) > 0 /\ Rank(pc') > 0 /\ pc' # pc) => Rank(pc') > Rank(pc)
    /\ (pc = "finally" /\ pc' # pc) => pc' \in {"loop", "done"}
    /\ (pc' = "login" /\ pc # "login")
           => (pc = "connect" /\ last' = Result("connect", 0, "ok"))
    /\ (pc' = "helo" /\ pc # "helo")
           => \/ pc = "connect" /\ last' = Result("connect", 0, "ok") /\ ~HasCredentials
              \/ pc = "login" /\ last' = Result("login", 0, "ok")
    /\ (pc' = "mail" /\ pc # "mail")
           => (pc = "helo" /\ last' = Result("helo", 250, ""))
    /\ (pc' = "rcpt" /\ pc # "rcpt")
           => (pc = "mail" /\ last' = Result("mail", 250, ""))
    /\ (pc \in {"login", "helo", "mail"} /\ pc' \in {"helo", "mail", "rcpt"})
           => UNCHANGED <<smtp, i, mx_hosts, contacted>>

C23_CommandOrder == []C23_Inv /\ [][C23_Step]_vars

C23_Witness ==
    /\ pc = "rcpt"
    /\ HasCredentials
    /\ last = Result("mail", 250, "")
    /\ smtp = "open"

(***************************************************************************)
(* C24: once the connect, and the login when the record has credentials,   *)
(* succeeded, the reachability cache holds True for the exchanger.         *)
(* Without verify the try block then returns True: no HELO, MAIL FROM or   *)
(* RCPT TO is sent, the finally clause quits the connection and the call   *)
(* ends Valid.                                                             *)
(***************************************************************************)
Established ==
    \/ last = Result("connect", 0, "ok") /\ ~HasCredentials
    \/ last = Result("login", 0, "ok")

C24_Inv ==
    /\ Established =>
           /\ mx \in DOMAIN MX_CHECK_CACHE
           /\ MX_CHECK_CACHE[mx] = PyTrue
           /\ IF args.verify THEN pc = "helo" /\ smtp = "open"
              ELSE \/ pc = "finally" /\ pending = Return(PyTrue) /\ smtp = "open"
                   \/ /\ pc = "done"
                      /\ Valid
                      /\ smtp = "closed"
                      /\ released \in {"ok", "SMTPServerDisconnected"}
    /\ ~args.verify => pc \notin {"helo", "mail", "rcpt"}

C24_Step ==
    (pc = "finally" /\ Established /\ ~args.verify)
        => (pc' = "done" /\ outcome' = Return(PyTrue) /\ smtp' = "closed")

DomainOf(email) == RSplit1(email, AT)[Len(RSplit1(email, AT))]

C25_Inv ==
    pc \in {"mail", "rcpt"} =>
        IF Truthy(mx_entry.username)
        THEN args.sending_email = mx_entry.username
        ELSE args.sending_email \in {Sender, Str(<<"admin", AT>> \o DomainOf(args.email))}

C25_Step ==
    /\ (pc = "helo" /\ pc' = "mail") =>
           args'.sending_email =
               IF Truthy(mx_entry.username) THEN mx_entry.username
               ELSE IF Truthy(args.sending_email) THEN args.sending_email
               ELSE Str(<<"admin", AT>> \o DomainOf(args.email))
    /\ (IsCall \/ pc' = "mail") \/ UNCHANGED args

KnownIn(q, sql_conn) ==
    {k \in DOMAIN q : HasEntry(topleveldomain(q[k]), sql_conn)}

C26_Inv ==
    /\ pc = "dns" =>
           \A q \in Answers :
               LET r == on_answer(hostname, q, args.sql_conn, args.decrypt).result
                   known == KnownIn(q, args.sql_conn)
               IN IF known # {}
                  THEN r = Return(Dict(<<RecordOf(RowOf(topleveldomain(q[Min(known)])),
                                                  args.decrypt)>>))
                  ELSE /\ r.k = "return"
                       /\ r.v.t = "dict"
                       /\ Len(r.v.v) = Len(q)
                       /\ {r.v.v[k].server : k \in DOMAIN r.v.v} = {q[k] : k \in DOMAIN q}
    /\ Queried("answer") =>
           LET tlds == Tail(lookups)
           IN IF IsDirectoryRoute
              THEN /\ Len(mx_hosts.v) = 1
                   /\ mx_hosts.v[1].domain = tlds[Len(tlds)]
                   /\ KnownIn(tlds, args.sql_conn) = {Len(tlds)}
              ELSE /\ mx_hosts.t = "dict"
                   /\ Len(mx_hosts.v) = Len(tlds)
                   /\ KnownIn(tlds, args.sql_conn) = {}

C26_DirectoryOrDefaults == C26_Inv

C26_Witness ==
    /\ Queried("answer")
    /\ IsDirectoryRoute
    /\ Len(lookups) = 3
    /\ Len(mx_hosts.v) = 1

(***************************************************************************)
(* C27: every record that get_mx_ip builds for an exchanger named by DNS,  *)
(* and so every record stored in MX_DNS_CACHE, has no username, no         *)
(* password, is_ssl 0, port 25 and the queried hostname as its domain.     *)
(***************************************************************************)
IsDefault(rec, h) ==
    /\ rec.username = None
    /\ rec.password = None
    /\ rec.is_ssl = 0
    /\ ~(rec.is_ssl > 0)
    /\ rec.port = 25
    /\ rec.domain = h

C27_DefaultRecords ==
    /\ \A h \in DOMAIN MX_DNS_CACHE :
           MX_DNS_CACHE[h].t = "dict" =>
               \A k \in DOMAIN MX_DNS_CACHE[h].v : IsDefault(MX_DNS_CACHE[h].v[k], h)
    /\ (mx_hosts.t = "dict" /\ ~IsDirectoryRoute) =>
           \A k \in DOMAIN mx_hosts.v : IsDefault(mx_hosts.v[k], hostname)

C27_Witness ==
    /\ Queried("answer")
    /\ hostname \in DOMAIN MX_DNS_CACHE
    /\ MX_DNS_CACHE[hostname].t = "dict"
    /\ Len(MX_DNS_CACHE[hostname].v) = MaxMX
    /\ mx_hosts = MX_DNS_CACHE[hostname]

(***************************************************************************)
(* C28: the exchangers are probed one at a time in the order in which the  *)
(* resolver named them: the next one is contacted only after the attempt   *)
(* on the one before has ended and its connection is released, at most one *)
(* connection is open, and no exchanger is contacted twice in a call.      *)
(***************************************************************************)
\* one at a time, each at most once, the connection released in between
C28_OneAtATime ==
    /\ \A a, b \in DOMAIN contacted :
           a # b => contacted[a].server # contacted[b].server
    /\ pc \in {"connect", "login", "helo", "mail", "rcpt", "finally"} =>
           /\ Len(contacted) \in {i - 1, i}
           /\ \A k \in DOMAIN contacted : contacted[k].server = mx_hosts.v[k].server
    /\ pc \in {"loop", "connect"} => smtp # "open"

\* the k-th connection of a call that queried the resolver goes to the k-th
\* exchanger of the answer: lookups holds the hostname and then the last two
\* labels of the exchangers in the order of the answer
C28_ResolverOrder ==
    (Queried("answer") /\ ~IsDirectoryRoute) =>
        \A k \in DOMAIN contacted :
            topleveldomain(contacted[k].server) = lookups[k + 1]

C28_ProbingOrder == C28_OneAtATime /\ C28_ResolverOrder

(***************************************************************************)
(* C29: every connection goes to the host and the port of the record of    *)
(* the exchanger at hand, and is made over TLS exactly when the is_ssl of  *)
(* that record is set.                                                     *)
(***************************************************************************)
\* the connection that the record rec asks for
ConnectionOf(rec) == [server |-> rec.server, port |-> rec.port, ssl |-> rec.is_ssl # 0]

C29_Inv ==
    /\ \A k \in DOMAIN contacted : contacted[k] = ConnectionOf(mx_hosts.v[k])
    /\ (contacted # <<>> /\ IsDirectoryRoute) =>
           \E r \in DOMAIN connectionView :
               contacted[1] = [server |-> connectionView[r][2].v,
                               port |-> connectionView[r][6],
                               ssl |-> connectionView[r][5] = 1]
    /\ (contacted # <<>> /\ ~IsDirectoryRoute) =>
           \A k \in DOMAIN contacted : ~contacted[k].ssl /\ contacted[k].port = 25

C29_Step ==
    (pc = "connect" /\ pc' # "connect") =>
        contacted' = Append(contacted, ConnectionOf(mx_entry))

C29_ConnectsAsRecorded == []C29_Inv /\ [][C29_Step]_vars

C29_Witness ==
    /\ IsDirectoryRoute
    /\ contacted = <<[server |-> <<"smtp", DOT, "gmail", DOT, "com">>, port |-> 465, ssl |-> TRUE]>>
    /\ smtp = "open"

(***************************************************************************)
(* C30: get_known_domain returns at most one record, also when the view    *)
(* has several rows for the domain, and None when no sql_conn is given or  *)
(* the view has no row for the domain.                                     *)
(***************************************************************************)
\* the domains looked up: those of the view and one that has no row
LookupDomains ==
    {connectionView[k][1].v : k \in DOMAIN connectionView} \cup {<<"corp", DOT, "com">>}

RowsOf(domain) == {k \in DOMAIN connectionView : connectionView[k][1].v = domain}

C30_Inv ==
    /\ \A h \in LookupDomains, s \in {None, Db}, d \in DOMAIN Decrypts :
           LET r == get_known_domain(h, s, Decrypts[d])
           IN IF s = None \/ RowsOf(h) = {}
              THEN r = None
              ELSE /\ r.t = "dict"
                   /\ Len(r.v) = 1
                   /\ \E k \in RowsOf(h) : r.v[1].server = connectionView[k][2].v
    /\ IsDirectoryRoute =>
           /\ Truthy(args.sql_conn)
           /\ Len(mx_hosts.v) = 1
           /\ RowsOf(mx_hosts.v[1].domain) # {}
    /\ (pc # "idle" /\ ~Truthy(args.sql_conn)) => ~IsDirectoryRoute

C30_AtMostOneRecord == C30_Inv

C30_Witness ==
    /\ IsDirectoryRoute
    /\ Cardinality(RowsOf(mx_hosts.v[1].domain)) > 1
    /\ Len(mx_hosts.v) = 1

(***************************************************************************)
(* C31: a verdict reached at RCPT TO (250 or 550) or at a successful       *)
(* connect with verify false is what validate_email returns, whatever      *)
(* happens at the closing QUIT: a failure of QUIT neither turns the        *)
(* verdict into None nor raises.                                           *)
(***************************************************************************)
\* the try block returned a verdict over an open connection
VerdictPending == pc = "finally" /\ pending.k = "return" /\ smtp = "open"

C31_Step == VerdictPending => (pc' = "done" /\ outcome' = pending)

C31_VerdictSurvivesQuit == [][C31_Step]_vars

(***************************************************************************)
(* C32: every entry of MX_CHECK_CACHE is True, so a verdict returned from  *)
(* that cache is True; and a call with check_mx true and verify false      *)
(* returns False only for an ill-formed address, a disposable domain that  *)
(* is not allowed, or a hostname that does not exist.                      *)
(***************************************************************************)
\* the call at hand asked for the MX check only
MxCheckOnly == calls > 0 /\ args.check_mx /\ ~args.verify

\* get_mx_ip answered None: the hostname does not exist
NoSuchDomain == Resolved /\ mx_hosts = None /\ NxCached(hostname)

C32_OnlyTrueIsCached ==
    /\ \A m \in DOMAIN MX_CHECK_CACHE : MX_CHECK_CACHE[m] = PyTrue
    /\ (pc = "done" /\ CacheHit /\ outcome.k = "return") => Valid
    /\ (pc = "finally" /\ CacheHit /\ smtp # "open" /\ pending.k = "return")
           => pending = Return(PyTrue)
    /\ (pc = "done" /\ MxCheckOnly /\ Invalid) =>
           \/ IllFormed
           \/ ~args.allow_disposable /\ ~NonDisposable(args.email)
           \/ NoSuchDomain

C32_Witness ==
    /\ pc = "done"
    /\ MxCheckOnly
    /\ CacheHit
    /\ Valid
    /\ contacted # <<>>

(***************************************************************************)
(* C33: with verify true MX_CHECK_CACHE is not consulted: the loop         *)
(* connects to the exchanger at hand also when the cache has an entry for  *)
(* it, and a True or False of the loop is the reply to RCPT TO of that     *)
(* call.                                                                   *)
(***************************************************************************)
\* the loop is at an exchanger that has an entry in MX_CHECK_CACHE
AtCached == mx_hosts.t = "dict" /\ i \in 1..Len(mx_hosts.v) /\ mx \in DOMAIN MX_CHECK_CACHE

C33_Inv ==
    (pc = "done" /\ calls > 0 /\ args.verify /\ mx_hosts.t = "dict"
        /\ outcome \in {Return(PyTrue), Return(PyFalse)}) =>
        /\ contacted # <<>>
        /\ contacted[Len(contacted)].server = mx
        /\ last = Result("rcpt", IF Valid THEN 250 ELSE 550, "")

C33_Step ==
    (pc = "loop" /\ args.verify /\ AtCached) =>
        (pc' = "connect" /\ smtp' = "closed" /\ UNCHANGED <<outcome, pending>>)

C33_VerifyIgnoresCache == []C33_Inv /\ [][C33_Step]_vars

\* a new SMTP object for the first exchanger, which an earlier call cached
C33_Witness ==
    /\ args.verify
    /\ AtCached
    /\ i = 1
    /\ pc = "connect"
    /\ smtp = "closed"
    /\ contacted = <<>>

(***************************************************************************)
(* C34: the entry of an exchanger in MX_CHECK_CACHE is written only by a   *)
(* connect that succeeded on a record without credentials or by a login    *)
(* that succeeded; a connect or a login that fails leaves MX_CHECK_CACHE   *)
(* and MX_DNS_CACHE as they were.                                          *)
(***************************************************************************)
C34_Step ==
    /\ MX_CHECK_CACHE' # MX_CHECK_CACHE =>
           /\ MX_CHECK_CACHE' = (mx :> PyTrue) @@ MX_CHECK_CACHE
           /\ UNCHANGED MX_DNS_CACHE
           /\ \/ pc = "connect" /\ ~HasCredentials /\ last' = Result("connect", 0, "ok")
              \/ pc = "login" /\ HasCredentials /\ last' = Result("login", 0, "ok")
    /\ (pc \in {"connect", "login"} /\ last'.err # "ok") => UNCHANGED caches
    /\ (pc = "connect" /\ HasCredentials) => UNCHANGED caches

C34_CachedAfterSuccess == [][C34_Step]_vars

\* a login failed on an exchanger that no call has reached yet
C34_Witness ==
    /\ pc = "finally"
    /\ last.op = "login"
    /\ last.err # "ok"
    /\ mx \notin DOMAIN MX_CHECK_CACHE

(***************************************************************************)
(* C35: the loop returns False only for a 550 reply to RCPT TO, which is   *)
(* sent only after HELO and MAIL FROM were both replied 250 on the same    *)
(* connection; a 550 reply to HELO or MAIL FROM, a failed connect and a    *)
(* disconnect never make the call return False.                            *)
(***************************************************************************)
\* the loop of this call ran: get_mx_ip gave it records
Probed == calls > 0 /\ pc # "idle" /\ mx_hosts.t = "dict"

C35_Inv ==
    /\ (Probed /\ pc = "done" /\ Invalid) =>
           /\ last = Result("rcpt", 550, "")
           /\ contacted # <<>>
           /\ contacted[Len(contacted)].server = mx
    /\ (Probed /\ pc = "finally" /\ pending = Return(PyFalse)) =>
           /\ last = Result("rcpt", 550, "")
           /\ smtp = "open"

C35_Step ==
    /\ (pc # "rcpt" /\ pc' = "rcpt") =>
           (pc = "mail" /\ last' = Result("mail", 250, "") /\ UNCHANGED <<smtp, i, contacted>>)
    /\ (pc # "mail" /\ pc' = "mail") =>
           (pc = "helo" /\ last' = Result("helo", 250, "") /\ UNCHANGED <<smtp, i, contacted>>)
    /\ (pc \in {"helo", "mail"} /\ last'.code = 550) => pending' = Continue
    /\ (pc \in {"connect", "login", "helo", "mail", "rcpt"} /\ last'.err \notin {"", "ok"}) =>
           (pc' = "finally" /\ pending' # Return(PyFalse))

C35_InvalidOnlyFromRcpt == []C35_Inv /\ [][C35_Step]_vars

\* False from the second exchanger, after the first was given up
C35_Witness ==
    /\ Probed
    /\ pc = "done"
    /\ Invalid
    /\ Len(contacted) = 2
    /\ RcptReplied(550)

(***************************************************************************)
(* C36: the two caches only grow: no step removes a key of MX_DNS_CACHE or *)
(* of MX_CHECK_CACHE or changes the value under a key, and the False of a  *)
(* DNS timeout is never a value of MX_DNS_CACHE.                           *)
(***************************************************************************)
\* cache c is kept whole in the next state's cache d
Extends(d, c) == \A key \in DOMAIN c : key \in DOMAIN d /\ d[key] = c[key]

C36_Inv ==
    /\ \A h \in DOMAIN MX_DNS_CACHE : MX_DNS_CACHE[h].t \in {"None", "dict"}
    /\ (Queried("Timeout") /\ pc = "done") => hostname \notin DOMAIN MX_DNS_CACHE

C36_Step ==
    /\ Extends(MX_DNS_CACHE', MX_DNS_CACHE)
    /\ Extends(MX_CHECK_CACHE', MX_CHECK_CACHE)

C36_CachesGrow == []C36_Inv /\ [][C36_Step]_vars

\* a timeout in a call that follows one which filled both caches
C36_Witness ==
    /\ Queried("Timeout")
    /\ pc = "done"
    /\ Unknown
    /\ MX_DNS_CACHE # <<>>
    /\ MX_CHECK_CACHE # <<>>

(***************************************************************************)
(* C37: the hostname that validate_email resolves, and puts in the admin@  *)
(* sender, is the text of the address after its last '@', the domain that  *)
(* is_disposable tests, also when the quoted local part has an '@' in it.  *)
(***************************************************************************)
C37_HostnameIsDomain ==
    Resolved =>
        /\ hostname = DomainOf(args.email)
        /\ lookups[1] = DomainOf(args.email)

(***************************************************************************)
(* C38: smtp.login is called on an exchanger exactly when its record has a *)
(* username and a password that are both non-empty; a record with a        *)
(* username and no password connects without a login, and its username is  *)
(* still the envelope sender.                                              *)
(***************************************************************************)
\* the record at hand names a user but has no password
UsernameOnly == Truthy(mx_entry.username) /\ ~Truthy(mx_entry.password)

C38_Inv ==
    /\ pc = "login" => HasCredentials
    /\ pc = "helo" =>
           last = Result(IF HasCredentials THEN "login" ELSE "connect", 0, "ok")
    /\ (pc \in {"mail", "rcpt"} /\ UsernameOnly) => args.sending_email = mx_entry.username

C38_Step ==
    /\ (pc = "connect" /\ last' = Result("connect", 0, "ok")) =>
           (pc' = "login" <=> HasCredentials)
    /\ (last' # last /\ last'.op = "login") => (pc = "login" /\ HasCredentials)
    /\ (pc = "helo" /\ pc' = "mail" /\ UsernameOnly) =>
           args'.sending_email = mx_entry.username

C38_LoginIffCredentials == []C38_Inv /\ [][C38_Step]_vars

\* MAIL FROM is next on a record with a username and no password
C38_Witness ==
    /\ pc = "mail"
    /\ UsernameOnly
    /\ last = Result("helo", 250, "")
    /\ args.sending_email = mx_entry.username
    /\ args.sending_email # Sender

=============================================================================
